---- MODULE Spec2Model ----
(***************************************************************************)
(* Model of bybit_shortbot/bot.py: the scan cycle of main(), the watchlist *)
(* state machine, the paper-trade lifecycle and the funding guard.         *)
(*                                                                         *)
(* Numbers.  Prices the exchange gives are integers (ticks).  A fraction   *)
(* [num, den] stands for the float nearest to num / den: a funding rate    *)
(* read from its decimal string, or the quotient of two integers.  What    *)
(* the program computes from an inexact float (the take-profit, a close    *)
(* price, a pnl) is a float in the representation of the section "Python   *)
(* floats", with the rounding of the code.                                 *)
(* A raw field of an exchange answer is [isnum, val]: a string that        *)
(* float() accepts, with its value, or one it rejects.                     *)
(***************************************************************************)
EXTENDS Integers, Sequences, FiniteSets, TLC

VARIABLES
    pc,           \* position of main(): "loop", "tickers", "trades", "admit", "stall", "save"
    clock,        \* time.time(), in seconds
    now_ts,       \* now_ts of the cycle in progress
    state,        \* the state dict
    trades,       \* the trades list
    tick_map,     \* tick_map of the cycle in progress
    candidates,   \* candidates of the cycle in progress
    keys,         \* list(watch.keys()) taken at line 401
    pos,          \* index of the element the running for-loop handles next
    last_candle,  \* result of the latest get_last_closed_kline call of the cycle
    disk,         \* the two files: [state, trades]
    listed,       \* the symbols the exchange lists in this run
    ncycles,      \* cycles the run may still begin
    suppressed,   \* history: per symbol, the local_high and time of its latest block,
                  \*   until a candle with a higher high is seen for the symbol
    rising,       \* history: watched symbols whose candle highs, one cycle after the
                  \*   other since admission, have been strictly increasing
    hist,         \* history of the run: the bars a cycle was begun for, the bar of the
                  \*   latest caught failure, the memory at the start of the cycle in
                  \*   progress (between cycles: at the end of the last one that was
                  \*   completed), the files written since, the number of failures,
                  \*   interrupts and crashes and the number of restarts
    arg,          \* argument of the function under examination
    ret           \* its result, or Pending

vars == <<pc, clock, now_ts, state, trades, tick_map, candidates, keys, pos,
          last_candle, disk, listed, ncycles, suppressed, rising, hist, arg, ret>>

-----------------------------------------------------------------------------
(* Bounds *)

\* cycles begun in a run with one symbol listed, and in a run with two
MaxCycles == 4
MaxCyclesBoth == 3

\* failures, interrupts and crashes in a run that has them, and its cycles
MaxFaults == 2
MaxCyclesFaults == 3

\* cycles begun in a run that starts on the files of a long run
MaxCyclesEvents == 2

-----------------------------------------------------------------------------
(* BotConfig *)

\* the bar gate switched off
only_on_15m_close_Off == FALSE

only_on_15m_close == TRUE
wake_seconds == 5
quote == <<"U", "S", "D", "T">>
min_pump_from_low24_pct == 35
near_high_ratio == [num |-> 88, den |-> 100]
min_turnover_usdt == 5000000
stall_candles == 2
watch_ttl_seconds == 24 * 60 * 60
notional_usdt == 20
tp_from_high_pct == [num |-> 30, den |-> 100]
sl_mult == 2
enable_funding_guard == TRUE
funding_guard_ratio == [num |-> 1, den |-> 1]
symbol_cooldown_minutes == 60

-----------------------------------------------------------------------------
(* Values *)

\* Python's None where an integer is expected (close_ts, last_bar_close_ms)
None == -1
\* Python's None where a float is expected (close_price, trade_pnl); the float x is <<x>>
NoFloat == <<>>
\* Python's None where a string is expected (close_reason)
NoReason == "None"

Num(v) == [isnum |-> TRUE, val |-> v]
Malformed == [isnum |-> FALSE, val |-> 0]
Frac(n, d) == [num |-> n, den |-> d]
Zero == Frac(0, 1)

SymA == <<"A", "U", "S", "D", "T">>
SymB == <<"B", "U", "S", "D", "T">>
Symbols == {SymA, SymB}

\* a kline row [start, open, high, low, close, ...]; indices are 1-based here
Kline(h, l, c) == <<Num(0), Num(c), Num(h), Num(l), Num(c)>>
NoKline == <<>>

safe_float(x, default) == IF x.isnum THEN x.val ELSE default

current_15m_close_ms(t) == ((t \div (15 * 60)) * (15 * 60)) * 1000

endswith(s, suffix) ==
    /\ Len(s) >= Len(suffix)
    /\ SubSeq(s, Len(s) - Len(suffix) + 1, Len(s)) = suffix

default_state ==
    [last_bar_close_ms |-> None,
     cooldowns |-> <<>>,
     watch |-> <<>>,
     last_events |-> <<>>]

\* the watch dict is kept as the sequence of its items, in insertion order
WatchKeys(watch) == [n \in 1..Len(watch) |-> watch[n].symbol]
InWatch(watch, sym) == \E n \in 1..Len(watch) : watch[n].symbol = sym
WatchIndex(watch, sym) == CHOOSE n \in 1..Len(watch) : watch[n].symbol = sym
WatchGet(watch, sym) == watch[WatchIndex(watch, sym)]
SelectWatch(watch, keep(_)) ==
    LET F[n \in 0..Len(watch)] ==
            IF n = 0 THEN <<>>
            ELSE IF keep(watch[n]) THEN Append(F[n - 1], watch[n]) ELSE F[n - 1]
    IN F[Len(watch)]
WatchPop(watch, sym) == SelectWatch(watch, LAMBDA w : w.symbol # sym)

in_cooldown(st, symbol, now) ==
    IF symbol \notin DOMAIN st.cooldowns THEN FALSE
    ELSE IF st.cooldowns[symbol] = 0 THEN FALSE
    ELSE (now - st.cooldowns[symbol]) < symbol_cooldown_minutes * 60

set_cooldown(st, symbol, now) ==
    [st EXCEPT !.cooldowns =
        [s \in (DOMAIN @) \cup {symbol} |-> IF s = symbol THEN now ELSE @[s]]]

-----------------------------------------------------------------------------
(* Python floats *)

\* A float of the program is an IEEE 754 binary64 number, and its arithmetic rounds
\* to nearest, ties to even.  Here it is [neg, man, exp], standing for
\* (-1)^neg * man * 2^exp exactly, with man an odd natural number (the sequence of
\* its digits in base 2^LimbBits, lowest first, no leading zero) or <<>> for 0.
\* Exponent overflow and subnormal numbers are out of the range of the values met.
LimbBits == 15
Limb == 2 ^ LimbBits
Precision == 53

RECURSIVE BNorm(_)
BNorm(a) ==
    IF a = <<>> THEN a
    ELSE IF a[Len(a)] = 0 THEN BNorm(SubSeq(a, 1, Len(a) - 1)) ELSE a

RECURSIVE BFromNat(_)
BFromNat(n) == IF n = 0 THEN <<>> ELSE <<n % Limb>> \o BFromNat(n \div Limb)

Digit(a, i) == IF i <= Len(a) THEN a[i] ELSE 0

RECURSIVE BAddFrom(_, _, _, _)
BAddFrom(a, b, i, carry) ==
    IF i > Len(a) /\ i > Len(b) THEN (IF carry = 0 THEN <<>> ELSE <<carry>>)
    ELSE LET x == Digit(a, i) + Digit(b, i) + carry
         IN  <<x % Limb>> \o BAddFrom(a, b, i + 1, x \div Limb)

BAdd(a, b) == BNorm(BAddFrom(a, b, 1, 0))

RECURSIVE BSubFrom(_, _, _, _)
BSubFrom(a, b, i, borrow) ==
    IF i > Len(a) THEN <<>>
    ELSE LET x == a[i] - Digit(b, i) - borrow
         IN  IF x < 0 THEN <<x + Limb>> \o BSubFrom(a, b, i + 1, 1)
             ELSE <<x>> \o BSubFrom(a, b, i + 1, 0)

\* a - b for a >= b
BSub(a, b) == BNorm(BSubFrom(a, b, 1, 0))

RECURSIVE BCmpFrom(_, _, _)
BCmpFrom(a, b, i) ==
    IF i = 0 THEN 0
    ELSE IF a[i] > b[i] THEN 1
    ELSE IF a[i] < b[i] THEN -1
    ELSE BCmpFrom(a, b, i - 1)

\* -1, 0, 1 as a < b, a = b, a > b
BCmp(a, b) ==
    IF Len(a) > Len(b) THEN 1
    ELSE IF Len(a) < Len(b) THEN -1
    ELSE BCmpFrom(a, b, Len(a))

RECURSIVE BMulSmallFrom(_, _, _, _)
BMulSmallFrom(a, k, i, carry) ==
    IF i > Len(a) THEN (IF carry = 0 THEN <<>> ELSE <<carry>>)
    ELSE LET x == a[i] * k + carry
         IN  <<x % Limb>> \o BMulSmallFrom(a, k, i + 1, x \div Limb)

\* a * k for 0 <= k < Limb
BMulSmall(a, k) == BNorm(BMulSmallFrom(a, k, 1, 0))

RECURSIVE BMulFrom(_, _, _)
BMulFrom(a, b, i) ==
    IF i > Len(b) THEN <<>>
    ELSE BAddFrom(BMulSmallFrom(a, b[i], 1, 0), <<0>> \o BMulFrom(a, b, i + 1), 1, 0)

RECURSIVE BMul(_, _)
BMul(a, b) == IF Len(a) < Len(b) THEN BMul(b, a) ELSE BNorm(BMulFrom(a, b, 1))

\* a * 2^n
BShl(a, n) ==
    IF a = <<>> \/ n = 0 THEN a
    ELSE [i \in 1..(n \div LimbBits) |-> 0] \o BMulSmall(a, 2 ^ (n % LimbBits))

RECURSIVE BDivFrom(_, _, _, _)
BDivFrom(a, d, i, r) ==
    IF i = 0 THEN [q |-> <<>>, r |-> r]
    ELSE LET x == r * Limb + a[i]
             rest == BDivFrom(a, d, i - 1, x % d)
         IN  [q |-> Append(rest.q, x \div d), r |-> rest.r]

BDivNorm(res) == [q |-> BNorm(res.q), r |-> res.r]

\* quotient and remainder of a by d, for 0 < d <= Limb
BDivSmall(a, d) == BDivNorm(BDivFrom(a, d, Len(a), 0))

\* a \div 2^n
BShr(a, n) ==
    IF n = 0 THEN a
    ELSE IF n \div LimbBits >= Len(a) THEN <<>>
    ELSE BNorm([i \in 1..(Len(a) - n \div LimbBits) |->
                   a[i + n \div LimbBits] \div 2 ^ (n % LimbBits)
                   + (Digit(a, i + n \div LimbBits + 1) % 2 ^ (n % LimbBits))
                     * 2 ^ (LimbBits - (n % LimbBits))])

\* number of binary digits of a
BBits(a) ==
    IF a = <<>> THEN 0
    ELSE LimbBits * (Len(a) - 1)
         + (CHOOSE k \in 1..LimbBits : 2 ^ (k - 1) <= a[Len(a)] /\ a[Len(a)] < 2 ^ k)

\* the binary digit of a at position k, the lowest being at position 0
BBit(a, k) == (Digit(a, k \div LimbBits + 1) \div 2 ^ (k % LimbBits)) % 2

\* whether the k lowest binary digits of a are all 0
BLowZero(a, k) ==
    /\ \A i \in 1..(k \div LimbBits) : Digit(a, i) = 0
    /\ Digit(a, k \div LimbBits + 1) % 2 ^ (k % LimbBits) = 0

\* number of binary digits 0 at the low end of a, for a # <<>>
RECURSIVE BTrailingZeros(_)
BTrailingZeros(a) ==
    IF a[1] = 0 THEN LimbBits + BTrailingZeros(Tail(a))
    ELSE CHOOSE k \in 0..(LimbBits - 1) : a[1] % 2 ^ k = 0 /\ a[1] % 2 ^ (k + 1) # 0

FZero == [neg |-> FALSE, man |-> <<>>, exp |-> 0]

ExactBy(neg, m, e, k) == [neg |-> neg, man |-> BShr(m, k), exp |-> e + k]

\* the float (-1)^neg * m * 2^e, for m of at most Precision binary digits
Exact(neg, m, e) == IF m = <<>> THEN FZero ELSE ExactBy(neg, m, e, BTrailingZeros(m))

\* m without its s lowest binary digits (s > 0), rounded: q is m \div 2^s, and it
\* goes up when what is cut off (with something more after it if more) is over a
\* half, or is a half and q is odd
Nearest(m, s, more, q) ==
    IF BBit(m, s - 1) = 1 /\ (~BLowZero(m, s - 1) \/ more \/ BBit(q, 0) = 1)
    THEN BAdd(q, <<1>>)
    ELSE q

RoundBy(neg, m, e, more, s) ==
    Exact(neg,
          IF s <= 0 THEN m ELSE Nearest(m, s, more, BShr(m, s)),
          IF s <= 0 THEN e ELSE e + s)

\* the float nearest to (-1)^neg * (m + f) * 2^e, where f = 0 if ~more and
\* 0 < f < 1 if more; ties go to the even mantissa
Round(neg, m, e, more) == RoundBy(neg, m, e, more, BBits(m) - Precision)

Abs(n) == IF n < 0 THEN -n ELSE n

\* float(n) for the integers up to 2^10 either way, worked out once
SmallFloats == [n \in -(2 ^ 10)..(2 ^ 10) |-> Exact(n < 0, BFromNat(Abs(n)), 0)]

\* float(n) of an integer
FromInt(n) ==
    IF n \in DOMAIN SmallFloats THEN SmallFloats[n] ELSE Exact(n < 0, BFromNat(Abs(n)), 0)

Quotient(neg, d) == Round(neg, d.q, -(5 * LimbBits), d.r # 0)

\* the float nearest to p / q: what float() gives for the decimal string of p / q,
\* and what the division of the floats p and q gives; 0 < q < Limb
FromRat(p, q) ==
    IF p = 0 THEN FZero
    ELSE Quotient(p < 0, BDivSmall(BShl(BFromNat(Abs(p)), 5 * LimbBits), q))

\* the float a fraction stands for
FromFrac(f) == FromRat(IF f.den < 0 THEN -f.num ELSE f.num, Abs(f.den))

FSign(a) == IF a.man = <<>> THEN 0 ELSE IF a.neg THEN -1 ELSE 1
FNeg(a) == IF a.man = <<>> THEN a ELSE [a EXCEPT !.neg = ~@]
FAbs(a) == [a EXCEPT !.neg = FALSE]

\* a * b
FMul(a, b) == Round(a.neg # b.neg, BMul(a.man, b.man), a.exp + b.exp, FALSE)

\* (-1)^xneg * x * 2^e + (-1)^yneg * y * 2^e
AddAligned(xneg, x, yneg, y, e) ==
    Round(IF xneg = yneg \/ BCmp(x, y) >= 0 THEN xneg ELSE yneg,
          IF xneg = yneg THEN BAdd(x, y)
          ELSE IF BCmp(x, y) >= 0 THEN BSub(x, y) ELSE BSub(y, x),
          e, FALSE)

AddAt(a, b, e) ==
    AddAligned(a.neg, BShl(a.man, a.exp - e), b.neg, BShl(b.man, b.exp - e), e)

\* a + b
FAdd(a, b) == AddAt(a, b, IF a.exp < b.exp THEN a.exp ELSE b.exp)

\* a - b
FSub(a, b) == FAdd(a, FNeg(b))

\* -1, 0, 1 as a < b, a = b, a > b
FCmp(a, b) ==
    IF FSign(a) # FSign(b) THEN (IF FSign(a) > FSign(b) THEN 1 ELSE -1)
    ELSE LET e == IF a.exp < b.exp THEN a.exp ELSE b.exp
         IN  FSign(a) * BCmp(BShl(a.man, a.exp - e), BShl(b.man, b.exp - e))

FLeq(a, b) == FCmp(a, b) <= 0
FLess(a, b) == FCmp(a, b) < 0

-----------------------------------------------------------------------------
(* FILTERS *)

\* line 157: (last - low24) / low24 * 100.0, each operation rounded; the prices are
\* whole numbers and 0 < low24 < Limb
PumpFromLow24(last, low24) == FMul(FromRat(last - low24, low24), FromInt(100))

\* line 158: last / high24, for 0 < high24 < Limb
NearHigh(last, high24) == FromRat(last, high24)

\* lines 162-177, on the values of lines 143-158
Screened(sym, last, high24, low24, turnover, funding_rate, next_funding_ms, pump_from_low24, near_high) ==
    IF FLess(pump_from_low24, FromInt(min_pump_from_low24_pct)) THEN <<>>
    ELSE IF FLess(near_high, FromFrac(near_high_ratio)) THEN <<>>
    ELSE << [symbol |-> sym,
             last |-> last,
             high24 |-> high24,
             low24 |-> low24,
             turnover |-> turnover,
             pump_from_low24_pct |-> pump_from_low24,
             near_high |-> near_high,
             funding_rate |-> funding_rate,
             next_funding_ms |-> next_funding_ms] >>

\* candidate_from_ticker without the turnover test of lines 160-161
candidate_from_ticker_NoTurnover(t) ==
    IF ~endswith(t.symbol, quote) THEN <<>>
    ELSE IF \/ safe_float(t.lastPrice, 0) <= 0
            \/ safe_float(t.highPrice24h, 0) <= 0
            \/ safe_float(t.lowPrice24h, 0) <= 0 THEN <<>>
    ELSE Screened(t.symbol, safe_float(t.lastPrice, 0), safe_float(t.highPrice24h, 0),
                  safe_float(t.lowPrice24h, 0), safe_float(t.turnover24h, 0),
                  safe_float(t.fundingRate, Zero), safe_float(t.nextFundingTime, 0),
                  PumpFromLow24(safe_float(t.lastPrice, 0), safe_float(t.lowPrice24h, 0)),
                  NearHigh(safe_float(t.lastPrice, 0), safe_float(t.highPrice24h, 0)))

\* lines 142-178; None is <<>>, a candidate is <<c>>
candidate_from_ticker(t) ==
    IF ~endswith(t.symbol, quote) THEN <<>>
    ELSE IF \/ safe_float(t.lastPrice, 0) <= 0
            \/ safe_float(t.highPrice24h, 0) <= 0
            \/ safe_float(t.lowPrice24h, 0) <= 0 THEN <<>>
    ELSE IF safe_float(t.turnover24h, 0) < min_turnover_usdt THEN <<>>
    ELSE Screened(t.symbol, safe_float(t.lastPrice, 0), safe_float(t.highPrice24h, 0),
                  safe_float(t.lowPrice24h, 0), safe_float(t.turnover24h, 0),
                  safe_float(t.fundingRate, Zero), safe_float(t.nextFundingTime, 0),
                  PumpFromLow24(safe_float(t.lastPrice, 0), safe_float(t.lowPrice24h, 0)),
                  NearHigh(safe_float(t.lastPrice, 0), safe_float(t.highPrice24h, 0)))

-----------------------------------------------------------------------------
(* PAPER TRADES *)

\* 1.0 - CFG.tp_from_high_pct
TpFactor == FSub(FromInt(1), FromFrac(tp_from_high_pct))

\* local_high * (1.0 - CFG.tp_from_high_pct) for the highs from 0 to 2^10, worked
\* out once
SmallTps == [h \in 0..(2 ^ 10) |-> FMul(FromInt(h), TpFactor)]

\* local_high * (1.0 - CFG.tp_from_high_pct)
TpFromHigh(local_high) ==
    IF local_high \in DOMAIN SmallTps THEN SmallTps[local_high]
    ELSE FMul(FromInt(local_high), TpFactor)

\* what a call raises when it returns nothing
ZeroDivisionError == "ZeroDivisionError"

\* line 187: CFG.notional_usdt / entry
MakeTradeRaises(entry) == entry = 0

\* make_trade with the take-profit at local_high itself
make_trade_TpAtHigh(symbol, entry, local_high, now, ticker) ==
    IF MakeTradeRaises(entry) THEN ZeroDivisionError
    ELSE
    [id |-> <<symbol, now>>,
     symbol |-> symbol,
     status |-> "OPEN",
     created_ts |-> now,
     open_ts |-> now,
     side |-> "SHORT",
     notional_usdt |-> notional_usdt,
     qty |-> FromFrac(Frac(notional_usdt, entry)),
     entry |-> entry,
     tp |-> FromInt(local_high),
     sl |-> entry * sl_mult,
     local_high |-> local_high,
     funding_rate_at_open |-> ticker.funding_rate,
     next_funding_ms_at_open |-> ticker.next_funding_ms,
     close_ts |-> None,
     close_reason |-> NoReason,
     close_price |-> NoFloat]

\* lines 184-211
make_trade(symbol, entry, local_high, now, ticker) ==
    IF MakeTradeRaises(entry) THEN ZeroDivisionError
    ELSE
    [id |-> <<symbol, now>>,
     symbol |-> symbol,
     status |-> "OPEN",
     created_ts |-> now,
     open_ts |-> now,
     side |-> "SHORT",
     notional_usdt |-> notional_usdt,
     qty |-> FromFrac(Frac(notional_usdt, entry)),
     entry |-> entry,
     tp |-> TpFromHigh(local_high),
     sl |-> entry * sl_mult,
     local_high |-> local_high,
     funding_rate_at_open |-> ticker.funding_rate,
     next_funding_ms_at_open |-> ticker.next_funding_ms,
     close_ts |-> None,
     close_reason |-> NoReason,
     close_price |-> NoFloat]

\* lines 213-219: (entry - close) * qty of a closed trade, None otherwise
trade_pnl(tr) ==
    IF tr.status # "CLOSED" \/ tr.close_price = NoFloat THEN NoFloat
    ELSE << FMul(FSub(FromInt(tr.entry), tr.close_price[1]), tr.qty) >>

remaining_profit_to_tp(tr, mark) ==
    IF FLeq(FromInt(mark), tr.tp) THEN FZero
    ELSE FMul(FSub(FromInt(mark), tr.tp), tr.qty)

funding_pnl_short(notional, rate) == FMul(FromInt(notional), FromFrac(rate))

\* funding_guard_cfg with > for the >= of line 244
funding_guard_cfg_Strict(enabled, ratio, tr, ticker, mark) ==
    IF ~enabled THEN FALSE
    ELSE LET rate == ticker.funding_rate IN
         IF rate.num >= 0 THEN FALSE
         ELSE LET rem == remaining_profit_to_tp(tr, mark) IN
              IF FSign(rem) <= 0 THEN FALSE
              ELSE LET expected == funding_pnl_short(tr.notional_usdt, rate) IN
                   FLess(FMul(rem, FromFrac(ratio)), FAbs(expected))

\* funding_guard under CFG.enable_funding_guard = enabled and
\* CFG.funding_guard_ratio = ratio
funding_guard_cfg(enabled, ratio, tr, ticker, mark) ==
    IF ~enabled THEN FALSE
    ELSE LET rate == ticker.funding_rate IN
         IF rate.num >= 0 THEN FALSE
         ELSE LET rem == remaining_profit_to_tp(tr, mark) IN
              IF FSign(rem) <= 0 THEN FALSE
              ELSE LET expected == funding_pnl_short(tr.notional_usdt, rate) IN
                   \* abs(expected) >= rem * CFG.funding_guard_ratio
                   FLeq(FMul(rem, FromFrac(ratio)), FAbs(expected))

funding_guard(tr, ticker, mark) ==
    funding_guard_cfg(enable_funding_guard, funding_guard_ratio, tr, ticker, mark)

CloseTrade(tr, now, reason, price) ==
    [tr EXCEPT !.status = "CLOSED", !.close_ts = now,
               !.close_reason = reason, !.close_price = <<price>>]

\* EvaluateTrade with the tie-break of lines 277-282 turned round: both hit closes as TP
EvaluateTrade_TieBreakTp(tr, candle, tmap, now) ==
    LET h == safe_float(candle[3], 0)
        l == safe_float(candle[4], 0)
        c == safe_float(candle[5], 0)
        ticker == IF tr.symbol \in DOMAIN tmap THEN tmap[tr.symbol]
                  ELSE [funding_rate |-> Zero, last |-> c]
        mark == ticker.last
        hit_tp == FLeq(FromInt(l), tr.tp)
        hit_sl == (h >= tr.sl)
    IN  IF funding_guard(tr, ticker, mark) THEN CloseTrade(tr, now, "FUNDING_GUARD", FromInt(mark))
        ELSE IF hit_tp THEN CloseTrade(tr, now, "TP", tr.tp)
        ELSE IF hit_sl THEN CloseTrade(tr, now, "SL", FromInt(tr.sl))
        ELSE tr

\* EvaluateTrade with the funding guard looked at after the candle range
EvaluateTrade_GuardLast(tr, candle, tmap, now) ==
    LET h == safe_float(candle[3], 0)
        l == safe_float(candle[4], 0)
        c == safe_float(candle[5], 0)
        ticker == IF tr.symbol \in DOMAIN tmap THEN tmap[tr.symbol]
                  ELSE [funding_rate |-> Zero, last |-> c]
        mark == ticker.last
        hit_tp == FLeq(FromInt(l), tr.tp)
        hit_sl == (h >= tr.sl)
    IN  IF hit_sl THEN CloseTrade(tr, now, "SL", FromInt(tr.sl))
        ELSE IF hit_tp THEN CloseTrade(tr, now, "TP", tr.tp)
        ELSE IF funding_guard(tr, ticker, mark) THEN CloseTrade(tr, now, "FUNDING_GUARD", FromInt(mark))
        ELSE tr

\* lines 256-292: one OPEN trade and its candle
EvaluateTrade(tr, candle, tmap, now) ==
    LET h == safe_float(candle[3], 0)
        l == safe_float(candle[4], 0)
        c == safe_float(candle[5], 0)
        ticker == IF tr.symbol \in DOMAIN tmap THEN tmap[tr.symbol]
                  ELSE [funding_rate |-> Zero, last |-> c]
        mark == ticker.last
        hit_tp == FLeq(FromInt(l), tr.tp)
        hit_sl == (h >= tr.sl)
    IN  IF funding_guard(tr, ticker, mark) THEN CloseTrade(tr, now, "FUNDING_GUARD", FromInt(mark))
        ELSE IF hit_tp /\ hit_sl THEN CloseTrade(tr, now, "SL", FromInt(tr.sl))
        ELSE IF hit_sl THEN CloseTrade(tr, now, "SL", FromInt(tr.sl))
        ELSE IF hit_tp THEN CloseTrade(tr, now, "TP", tr.tp)
        ELSE tr

\* SkipTrade without the status test: closed trades are evaluated again
SkipTrade_None(tr) == FALSE

\* line 249: which trades update_open_trades passes over
SkipTrade(tr) == tr.status # "OPEN"

\* first index >= n of a trade the loop of update_open_trades fetches a candle for
NextOpen(trs, n) ==
    IF \E m \in n..Len(trs) : ~SkipTrade(trs[m])
    THEN CHOOSE m \in n..Len(trs) :
            ~SkipTrade(trs[m]) /\ \A q \in n..(m - 1) : SkipTrade(trs[q])
    ELSE Len(trs) + 1

\* lines 253-255 and 256-292: the trades after trade n got its kline answer
UpdateOne(trs, n, candle, tmap, now) ==
    IF candle = NoKline THEN trs
    ELSE [trs EXCEPT ![n] = EvaluateTrade(@, candle, tmap, now)]

\* NextTradePos with break in the place of continue at line 255
NextTradePos_Break(trs, n, candle) ==
    IF candle = NoKline THEN Len(trs) + 1 ELSE NextOpen(trs, n + 1)

\* lines 254-255 (continue) and the end of the loop body: the trade handled after trade n
NextTradePos(trs, n, candle) == NextOpen(trs, n + 1)

-----------------------------------------------------------------------------
(* MAIN LOOP: the watchlist *)

\* Expired with > in the place of >= at line 366
Expired_Strict(w, now) == now - w.created_ts > watch_ttl_seconds

\* 2) Clean watchlist by TTL
Expired(w, now) == now - w.created_ts >= watch_ttl_seconds
CleanTTL(watch, now) == SelectWatch(watch, LAMBDA w : ~Expired(w, now))

\* HasOpenTrade finding no trade open
HasOpenTrade_Never(trs, sym) == FALSE

\* lines 380-381
HasOpenTrade(trs, sym) ==
    \E n \in 1..Len(trs) : trs[n].symbol = sym /\ trs[n].status = "OPEN"

\* Admissible without the cooldown test of lines 378-379
Admissible_NoCooldown(st, trs, sym, now) ==
    /\ ~InWatch(st.watch, sym)
    /\ ~HasOpenTrade(trs, sym)

\* lines 376-381: the candidate gets as far as the kline request
Admissible(st, trs, sym, now) ==
    /\ ~InWatch(st.watch, sym)
    /\ ~in_cooldown(st, sym, now)
    /\ ~HasOpenTrade(trs, sym)

NextAdmissible(st, trs, cands, n, now) ==
    IF \E m \in n..Len(cands) : Admissible(st, trs, cands[m].symbol, now)
    THEN CHOOSE m \in n..Len(cands) :
            /\ Admissible(st, trs, cands[m].symbol, now)
            /\ \A q \in n..(m - 1) : ~Admissible(st, trs, cands[q].symbol, now)
    ELSE Len(cands) + 1

\* lines 386-394
NewWatchEntry(sym, candle, now) ==
    [symbol |-> sym,
     local_high |-> safe_float(candle[3], 0),
     stall |-> 0,
     blocked |-> FALSE,
     updated_ts |-> now,
     created_ts |-> now]

\* lines 383-395: the watch dict after the candidate got its kline answer
AdmitOne(watch, sym, candle, now) ==
    IF candle = NoKline THEN watch
    ELSE Append(watch, NewWatchEntry(sym, candle, now))

\* state["last_events"][-500:]
\* Last500 keeping the first 500 entries instead of the last
Last500_Oldest(evs) == IF Len(evs) > 500 THEN SubSeq(evs, 1, 500) ELSE evs

\* state["last_events"][-500:]
Last500(evs) == IF Len(evs) > 500 THEN SubSeq(evs, Len(evs) - 499, Len(evs)) ELSE evs

\* AdvanceStall without line 421: a new high leaves the blocked flag as it is
AdvanceStall_KeepsBlocked(w, high, now) ==
    IF high > w.local_high
    THEN [w EXCEPT !.local_high = high, !.stall = 0, !.updated_ts = now]
    ELSE [w EXCEPT !.stall = w.stall + 1, !.updated_ts = now]

\* AdvanceStall taking the candle's high as local_high whatever it is
AdvanceStall_FollowsCandle(w, high, now) ==
    IF high > w.local_high
    THEN [w EXCEPT !.local_high = high, !.stall = 0, !.blocked = FALSE, !.updated_ts = now]
    ELSE [w EXCEPT !.local_high = high, !.stall = w.stall + 1, !.updated_ts = now]

\* lines 418-425
AdvanceStall(w, high, now) ==
    IF high > w.local_high
    THEN [w EXCEPT !.local_high = high, !.stall = 0, !.blocked = FALSE, !.updated_ts = now]
    ELSE [w EXCEPT !.stall = w.stall + 1, !.updated_ts = now]

\* TriggerCondition without "and not blocked"
TriggerCondition_IgnoresBlocked(w1, blocked) == w1.stall >= stall_candles

\* line 428; blocked is the flag as read at line 415, before the update
TriggerCondition(w1, blocked) == w1.stall >= stall_candles /\ ~blocked

\* lines 436-448
SkipBelowTp(st, trs, n, w1, entry, tp_from_high, now) ==
    [state |-> [st EXCEPT
        !.watch[n] = [w1 EXCEPT !.blocked = TRUE],
        !.last_events = Last500(Append(@,
            [ts |-> now, type |-> "SKIP_BELOW_TP", symbol |-> w1.symbol,
             entry |-> entry, tp |-> tp_from_high, local_high |-> w1.local_high]))],
     trades |-> trs,
     raised |-> FALSE]

\* OpenPaperTrade without watch.pop of line 469
OpenPaperTrade_KeepsWatch(st, trs, n, w1, entry, tinfo, now) ==
    LET sym == w1.symbol
        tr == make_trade(sym, entry, w1.local_high, now, tinfo)
        st1 == set_cooldown([st EXCEPT !.watch[n] = w1], sym, now)
    IN  IF MakeTradeRaises(entry)
        THEN [state |-> [st EXCEPT !.watch[n] = w1], trades |-> trs, raised |-> TRUE]
        ELSE
        [state |-> [st1 EXCEPT
            !.last_events = Last500(Append(@,
                [ts |-> now, type |-> "TRIGGER", symbol |-> sym,
                 entry |-> tr.entry, tp |-> tr.tp, sl |-> tr.sl,
                 local_high |-> tr.local_high,
                 funding_rate |-> tr.funding_rate_at_open]))],
         trades |-> Append(trs, tr),
         raised |-> FALSE]

\* lines 451-469; when make_trade raises, the entry keeps what lines 418-425 wrote
\* to it and nothing else has happened
OpenPaperTrade(st, trs, n, w1, entry, tinfo, now) ==
    LET sym == w1.symbol
        tr == make_trade(sym, entry, w1.local_high, now, tinfo)
        st1 == set_cooldown([st EXCEPT !.watch[n] = w1], sym, now)
    IN  IF MakeTradeRaises(entry)
        THEN [state |-> [st EXCEPT !.watch[n] = w1], trades |-> trs, raised |-> TRUE]
        ELSE
        [state |-> [st1 EXCEPT
            !.last_events = Last500(Append(@,
                [ts |-> now, type |-> "TRIGGER", symbol |-> sym,
                 entry |-> tr.entry, tp |-> tr.tp, sl |-> tr.sl,
                 local_high |-> tr.local_high,
                 funding_rate |-> tr.funding_rate_at_open])),
            !.watch = WatchPop(@, sym)],
         trades |-> Append(trs, tr),
         raised |-> FALSE]

\* lines 410-471: one watched symbol with its candle; gives the new state and trades,
\* and whether an exception ended the iteration
StallStep(st, trs, tmap, sym, candle, now) ==
    LET n == WatchIndex(st.watch, sym)
        w == st.watch[n]
        high == safe_float(candle[3], 0)
        close == safe_float(candle[5], 0)
        blocked == w.blocked
        w1 == AdvanceStall(w, high, now)
        tinfo == IF sym \in DOMAIN tmap THEN tmap[sym]
                 ELSE [last |-> close, funding_rate |-> Zero, next_funding_ms |-> 0]
        entry == tinfo.last
        tp_from_high == TpFromHigh(w1.local_high)
    IN  IF TriggerCondition(w1, blocked)
        THEN IF FLeq(FromInt(entry), tp_from_high)
             THEN SkipBelowTp(st, trs, n, w1, entry, tp_from_high, now)
             ELSE OpenPaperTrade(st, trs, n, w1, entry, tinfo, now)
        ELSE [state |-> [st EXCEPT !.watch[n] = w1], trades |-> trs, raised |-> FALSE]

\* lines 406-408 and 410-471
WatchOne(st, trs, tmap, sym, candle, now) ==
    IF candle = NoKline THEN [state |-> st, trades |-> trs, raised |-> FALSE]
    ELSE StallStep(st, trs, tmap, sym, candle, now)

-----------------------------------------------------------------------------
(* What the exchange and the clock can answer *)

\* with SymA alone listed every kind of candle is offered; otherwise one kind
\* (prices of the exchange are not negative: an entry price of 0 above the
\* take-profit, which make_trade cannot divide by, needs a negative local_high)
Klines(syms) ==
    IF syms = {SymA}
    THEN { Kline(10, 10, 10), Kline(10, 7, 10), Kline(20, 10, 20),
           Kline(20, 7, 10), Kline(30, 20, 30) }
    ELSE { Kline(10, 7, 10) }

KlineAnswers(syms) == Klines(syms) \cup {NoKline}

Ticker(sym, last, high24, low24, turnover, rate) ==
    [symbol |-> sym, lastPrice |-> Num(last), highPrice24h |-> Num(high24),
     lowPrice24h |-> Num(low24), turnover24h |-> Num(turnover),
     fundingRate |-> Num(rate), nextFundingTime |-> Num(0)]

\* the pumped row of a symbol: passes every filter of candidate_from_ticker
PumpedRow(sym) == Ticker(sym, 20, 22, 10, 5000000, Zero)

\* rows of get_tickers for one symbol
TickerRows(sym, syms) ==
    IF syms = {SymA}
    THEN { Ticker(sym, 10, 22, 7, 1000000, Zero),
           Ticker(sym, 10, 22, 7, 1000000, Frac(-1, 2)),
           PumpedRow(sym) }
    ELSE { PumpedRow(sym) }

\* answers of get_tickers: at most one row per listed symbol, SymA first
TickerLists(syms) ==
    LET Rows(sym) == IF sym \in syms
                     THEN {<<>>} \cup { <<t>> : t \in TickerRows(sym, syms) }
                     ELSE {<<>>}
    IN { a \o b : a \in Rows(SymA), b \in Rows(SymB) }

TickMapEntry(t) ==
    [symbol |-> t.symbol,
     last |-> safe_float(t.lastPrice, 0),
     funding_rate |-> safe_float(t.fundingRate, Zero),
     next_funding_ms |-> safe_float(t.nextFundingTime, 0)]

\* lines 336-347
BuildTickMap(tickers) ==
    [s \in { tickers[n].symbol : n \in 1..Len(tickers) } |->
        TickMapEntry(tickers[CHOOSE n \in 1..Len(tickers) :
            tickers[n].symbol = s /\ \A m \in (n + 1)..Len(tickers) : tickers[m].symbol # s])]

\* lines 337-350
BuildCandidates(tickers) ==
    LET F[n \in 0..Len(tickers)] ==
            IF n = 0 THEN <<>> ELSE F[n - 1] \o candidate_from_ticker(tickers[n])
    IN F[Len(tickers)]

BarSeconds == 15 * 60
StartTime == 2 * BarSeconds

\* main() reads the clock at line 325 (now_ts) and again at line 65 (or line 327)
\* for bar_close: when the first reading gave t, the second gives the same second or
\* the next; the next is told apart from the same only where it begins a bar
LaterReads(t) == IF (t + 1) % BarSeconds = 0 THEN {t, t + 1} ELSE {t}

\* line 327, the clock reading t
BarClose(t) == IF only_on_15m_close THEN current_15m_close_ms(t) ELSE t * 1000

\* the clock when a sleep returns: still in the same bar, or at the start of a later one
WakeTimes(t) ==
    LET bar == (t \div BarSeconds) * BarSeconds
    IN  (IF t = bar THEN {t + wake_seconds} ELSE {})
        \cup { bar + BarSeconds, bar + symbol_cooldown_minutes * 60, bar + watch_ttl_seconds }

\* the clock when the sleep of line 330 or 484 returns; once the last cycle of the
\* run has begun no later step depends on it, and the start of the next bar is kept
Wakes(t) ==
    IF ncycles > 0 THEN WakeTimes(t)
    ELSE {(t \div BarSeconds) * BarSeconds + BarSeconds}

-----------------------------------------------------------------------------
(* History kept for the properties; the program does not read it *)

NotSuppressed == [high |-> None, ts |-> None]

\* a kline answer for sym is seen
Observe(sup, sym, candle) ==
    IF candle # NoKline /\ sup[sym].high # None /\ safe_float(candle[3], 0) > sup[sym].high
    THEN [sup EXCEPT ![sym] = NotSuppressed]
    ELSE sup

\* the watch entry of sym has just been handled by the stall loop
NoteBlock(sup, sym, before, after, now) ==
    IF /\ InWatch(after.watch, sym)
       /\ WatchGet(after.watch, sym).blocked
       /\ ~WatchGet(before.watch, sym).blocked
    THEN [sup EXCEPT ![sym] = [high |-> WatchGet(after.watch, sym).local_high, ts |-> now]]
    ELSE sup

\* sym stays in rising when this cycle's candle is the admission candle again (in
\* the admission cycle) or has a higher high than that of the cycle before
StillRising(w, candle, now) ==
    /\ candle # NoKline
    /\ IF w.created_ts = now
       THEN safe_float(candle[3], 0) = w.local_high
       ELSE safe_float(candle[3], 0) > w.local_high

\* nothing has run yet: what load_json returned is in memory and counts as written
NoHistory ==
    [bars |-> {}, failed_bar |-> None,
     start |-> [state |-> default_state, trades |-> <<>>],
     wrote |-> [state |-> TRUE, trades |-> TRUE],
     nfaults |-> 0, restarts |-> 0]

\* a cycle begins for bar-close value bar with st and trs in memory
CycleBegun(h, bar, st, trs) ==
    [h EXCEPT !.bars = @ \cup {bar}, !.failed_bar = None,
              !.start = [state |-> st, trades |-> trs],
              !.wrote = [state |-> FALSE, trades |-> FALSE]]

\* no function has been applied yet
Pending == "pending"

-----------------------------------------------------------------------------
(* The loop of main() *)

\* the process is started on no files, with syms listed
Started(syms, cycles) ==
    /\ pc = "loop"
    /\ listed = syms
    /\ clock \in (IF listed = {SymB} THEN {StartTime - 1, StartTime} ELSE {StartTime})
    /\ now_ts = clock
    /\ state = default_state
    /\ trades = <<>>
    /\ tick_map = <<>>
    /\ candidates = <<>>
    /\ keys = <<>>
    /\ pos = 1
    /\ last_candle = NoKline
    /\ disk = [state |-> default_state, trades |-> <<>>]
    /\ ncycles = cycles
    /\ suppressed = [s \in Symbols |-> NotSuppressed]
    /\ rising = {}
    /\ hist = NoHistory
    /\ arg = <<>>
    /\ ret = Pending

Init ==
    \/ Started({SymA}, MaxCycles)
    \/ \E syms \in {{SymB}, {SymA, SymB}} : Started(syms, MaxCyclesBoth)

\* lines 325-330: the bar was processed already
SkipBar ==
    /\ pc = "loop"
    /\ \E later \in LaterReads(clock) :
        /\ only_on_15m_close /\ state.last_bar_close_ms = BarClose(later)
        /\ \E t \in Wakes(later) : clock' = t
    /\ now_ts' = clock
    /\ UNCHANGED <<pc, state, trades, tick_map, candidates, keys, pos, last_candle,
                   disk, listed, ncycles, suppressed, rising, hist, arg, ret>>

\* lines 325-331
BeginCycle ==
    /\ pc = "loop"
    /\ ncycles > 0
    /\ \E later \in LaterReads(clock) :
        /\ ~(only_on_15m_close /\ state.last_bar_close_ms = BarClose(later))
        /\ state' = [state EXCEPT !.last_bar_close_ms = BarClose(later)]
        /\ hist' = CycleBegun(hist, BarClose(later), state, trades)
        /\ clock' = later
    /\ now_ts' = clock
    /\ pc' = "tickers"
    /\ ncycles' = ncycles - 1
    /\ UNCHANGED <<trades, tick_map, candidates, keys, pos, last_candle, disk,
                   listed, suppressed, rising, arg, ret>>

\* lines 333-350 and the start of update_open_trades
GetTickers ==
    /\ pc = "tickers"
    /\ \E tickers \in TickerLists(listed) :
        /\ tick_map' = BuildTickMap(tickers)
        /\ candidates' = BuildCandidates(tickers)
    /\ pc' = "trades"
    /\ pos' = NextOpen(trades, 1)
    /\ UNCHANGED <<clock, now_ts, state, trades, keys, last_candle, disk, listed,
                   ncycles, suppressed, rising, hist, arg, ret>>

\* lines 248-292, one OPEN trade
UpdateOpenTrade ==
    /\ pc = "trades"
    /\ pos <= Len(trades)
    /\ \E candle \in KlineAnswers(listed) :
        /\ last_candle' = candle
        /\ trades' = UpdateOne(trades, pos, candle, tick_map, now_ts)
        /\ pos' = NextTradePos(trades, pos, candle)
        /\ suppressed' = Observe(suppressed, trades[pos].symbol, candle)
    /\ UNCHANGED <<pc, clock, now_ts, state, tick_map, candidates, keys, disk, listed,
                   ncycles, rising, hist, arg, ret>>

\* where the cycle goes once candidate n - 1 is done with
AfterAdmit(st, trs, n) ==
    LET m == NextAdmissible(st, trs, candidates, n, now_ts)
    IN  IF m <= Len(candidates) THEN [pc |-> "admit", pos |-> m, keys |-> keys]
        ELSE IF Len(st.watch) > 0
             THEN [pc |-> "stall", pos |-> 1, keys |-> WatchKeys(st.watch)]
             ELSE [pc |-> "save", pos |-> 1, keys |-> <<>>]

\* lines 354-370: save trades, clean the watchlist by TTL
CleanWatchlist ==
    /\ pc = "trades"
    /\ pos > Len(trades)
    /\ disk' = [disk EXCEPT !.trades = trades]
    /\ state' = [state EXCEPT !.watch = CleanTTL(@, now_ts)]
    /\ LET go == AfterAdmit(state', trades, 1)
       IN pc' = go.pc /\ pos' = go.pos /\ keys' = go.keys
    /\ rising' = { s \in rising : InWatch(state'.watch, s) }
    /\ hist' = [hist EXCEPT !.wrote.trades = TRUE]
    /\ UNCHANGED <<clock, now_ts, trades, tick_map, candidates, last_candle, listed,
                   ncycles, suppressed, arg, ret>>

\* lines 374-395, one candidate that passed the three checks
AdmitCandidate ==
    /\ pc = "admit"
    /\ pos <= Len(candidates)
    /\ \E candle \in KlineAnswers(listed) :
        /\ last_candle' = candle
        /\ state' = [state EXCEPT !.watch =
                        AdmitOne(@, candidates[pos].symbol, candle, now_ts)]
        /\ suppressed' = Observe(suppressed, candidates[pos].symbol, candle)
        /\ rising' = IF candle = NoKline THEN rising
                     ELSE rising \cup {candidates[pos].symbol}
    /\ LET go == AfterAdmit(state', trades, pos + 1)
       IN pc' = go.pc /\ pos' = go.pos /\ keys' = go.keys
    /\ UNCHANGED <<clock, now_ts, trades, tick_map, candidates, disk, listed, ncycles,
                   hist, arg, ret>>

\* lines 401-471, one watched symbol
UpdateWatch ==
    /\ pc = "stall"
    /\ pos <= Len(keys)
    /\ \E candle \in KlineAnswers(listed) :
       \E r \in {WatchOne(state, trades, tick_map, keys[pos], candle, now_ts)} :
        LET sym == keys[pos]
        IN  /\ state' = r.state
            /\ trades' = r.trades
            /\ suppressed' = NoteBlock(Observe(suppressed, sym, candle), sym,
                                       state, r.state, now_ts)
            /\ rising' = IF /\ InWatch(r.state.watch, sym)
                            /\ StillRising(WatchGet(state.watch, sym), candle, now_ts)
                         THEN rising ELSE rising \ {sym}
            /\ IF r.raised
               THEN \* lines 489-491: the exception is caught, the loop sleeps 3 s
                    /\ pc' = "loop"
                    /\ clock' = clock + 3
                    /\ tick_map' = <<>>
                    /\ candidates' = <<>>
                    /\ keys' = <<>>
                    /\ pos' = 1
                    /\ last_candle' = NoKline
                    /\ hist' = [hist EXCEPT !.failed_bar = state.last_bar_close_ms]
               ELSE /\ last_candle' = candle
                    /\ pos' = pos + 1
                    /\ pc' = IF pos + 1 <= Len(keys) THEN "stall" ELSE "save"
                    /\ UNCHANGED <<clock, tick_map, candidates, keys, hist>>
    /\ UNCHANGED <<now_ts, disk, listed, ncycles, arg, ret>>

\* lines 473-484
EndCycle ==
    /\ pc = "save"
    /\ disk' = [state |-> state, trades |-> trades]
    /\ \E t \in Wakes(clock) : clock' = t
    /\ pc' = "loop"
    /\ tick_map' = <<>>
    /\ candidates' = <<>>
    /\ keys' = <<>>
    /\ pos' = 1
    /\ last_candle' = NoKline
    /\ hist' = [hist EXCEPT !.wrote = [state |-> TRUE, trades |-> TRUE],
                            !.start = [state |-> state, trades |-> trades]]
    /\ UNCHANGED <<now_ts, state, trades, listed, ncycles, suppressed, rising, arg, ret>>

Next ==
    \/ SkipBar
    \/ BeginCycle
    \/ GetTickers
    \/ UpdateOpenTrade
    \/ CleanWatchlist
    \/ AdmitCandidate
    \/ UpdateWatch
    \/ EndCycle

Spec == Init /\ [][Next]_vars

-----------------------------------------------------------------------------
(* The loop of main() with failed requests, interrupts and crashes *)

\* json.loads of what json.dump wrote: dicts, lists, strings, numbers and None come
\* back as they went; a file that does not exist gives the default
load_json(file) == file

\* what the two files can hold when the program is stopped at pc: at "save" the
\* state file may have been replaced already (line 474) and the trades file not
\* yet (line 475); os.replace leaves no other possibility
FilesWhenStopped ==
    IF pc = "save" THEN {disk, [disk EXCEPT !.state = state]} ELSE {disk}

\* lines 489-491: an exception raised by a request or a save inside the try is
\* caught; the loop sleeps 3 s and goes on with what is in memory
CatchError ==
    /\ pc \in {"tickers", "trades", "admit", "stall", "save"}
    /\ hist.nfaults < MaxFaults
    /\ disk' \in FilesWhenStopped
    /\ pc' = "loop"
    /\ clock' = clock + 3
    /\ tick_map' = <<>>
    /\ candidates' = <<>>
    /\ keys' = <<>>
    /\ pos' = 1
    /\ last_candle' = NoKline
    /\ hist' = [hist EXCEPT !.failed_bar = state.last_bar_close_ms,
                            !.nfaults = @ + 1,
                            !.wrote.state = @ \/ disk'.state # disk.state]
    /\ UNCHANGED <<now_ts, state, trades, listed, ncycles, suppressed, rising, arg, ret>>

\* lines 486-488: KeyboardInterrupt, raised wherever the program is, ends the loop
KeyboardInterrupt ==
    /\ pc \in {"loop", "tickers", "trades", "admit", "stall", "save"}
    /\ hist.nfaults < MaxFaults
    /\ disk' \in FilesWhenStopped
    /\ pc' = "exit"
    /\ hist' = [hist EXCEPT !.nfaults = @ + 1,
                            !.wrote.state = @ \/ disk'.state # disk.state]
    /\ UNCHANGED <<clock, now_ts, state, trades, tick_map, candidates, keys, pos,
                   last_candle, listed, ncycles, suppressed, rising, arg, ret>>

\* the process is killed wherever it is and started again: lines 315-321 load the
\* two files
CrashRestart ==
    /\ pc \in {"loop", "tickers", "trades", "admit", "stall", "save"}
    /\ hist.nfaults < MaxFaults
    /\ disk' \in FilesWhenStopped
    /\ state' = load_json(disk'.state)
    /\ trades' = load_json(disk'.trades)
    /\ pc' = "loop"
    /\ tick_map' = <<>>
    /\ candidates' = <<>>
    /\ keys' = <<>>
    /\ pos' = 1
    /\ last_candle' = NoKline
    /\ rising' = {}
    /\ hist' = [hist EXCEPT !.nfaults = @ + 1, !.restarts = @ + 1, !.failed_bar = None,
                            !.start = [state |-> state', trades |-> trades'],
                            !.wrote = [state |-> TRUE, trades |-> TRUE]]
    /\ UNCHANGED <<clock, now_ts, listed, ncycles, suppressed, arg, ret>>

InitFaults == Started({SymA}, MaxCyclesFaults)

NextFaults ==
    \/ SkipBar
    \/ BeginCycle
    \/ GetTickers
    \/ UpdateOpenTrade
    \/ CleanWatchlist
    \/ AdmitCandidate
    \/ UpdateWatch
    \/ EndCycle
    \/ CatchError
    \/ KeyboardInterrupt
    \/ CrashRestart

SpecFaults == InitFaults /\ [][NextFaults]_vars

-----------------------------------------------------------------------------
(* The loop of main() started on the files of a long run *)

\* the n-th SKIP_BELOW_TP of an earlier run: SymA was blocked once every three bars
EarlierEvent(n) ==
    [ts |-> n * 3 * BarSeconds, type |-> "SKIP_BELOW_TP", symbol |-> SymA,
     entry |-> 10, tp |-> TpFromHigh(20), local_high |-> 20]

EarlierEvents(k) == [n \in 1..k |-> EarlierEvent(n)]

\* the last cycle of that run, after the watch entry of the last block was removed
\* by TTL
EarlierLastCycle == 500 * 3 * BarSeconds + watch_ttl_seconds

\* an entry admitted in that cycle on a candle with the high given (and counted once
\* by its stall loop)
EarlierWatch(sym, high) ==
    [NewWatchEntry(sym, Kline(high, 7, 10), EarlierLastCycle) EXCEPT !.stall = 1]

\* the watch dict that cycle left: SymA alone, one stall from a trade at any price
\* offered; or SymA, one stall from a block at the price 10 (10 <= 14.0), and SymB
EarlierWatches ==
    { << EarlierWatch(SymA, 10) >>,
      << EarlierWatch(SymA, 20), EarlierWatch(SymB, 10) >> }

\* the symbols get_tickers has rows for in the new run: the symbol watched last (of
\* two watched, SymA has left the ticker list and is priced by its candles' close)
EarlierListed(watch) == { watch[Len(watch)].symbol }

\* the state file of that run: k events on record
EarlierState(k, watch) ==
    [default_state EXCEPT !.last_events = EarlierEvents(k),
                          !.watch = watch,
                          !.last_bar_close_ms = current_15m_close_ms(EarlierLastCycle)]

\* the process is started two bars after that
EventsStartTime == EarlierLastCycle + 2 * BarSeconds

InitEvents ==
    /\ pc = "loop"
    /\ clock = EventsStartTime
    /\ now_ts = EventsStartTime
    /\ \E k \in {499, 500}, watch \in EarlierWatches :
        /\ state = load_json(EarlierState(k, watch))
        /\ disk = [state |-> EarlierState(k, watch), trades |-> <<>>]
        /\ hist = [NoHistory EXCEPT !.start.state = EarlierState(k, watch)]
        /\ listed = EarlierListed(watch)
    /\ trades = <<>>
    /\ tick_map = <<>>
    /\ candidates = <<>>
    /\ keys = <<>>
    /\ pos = 1
    /\ last_candle = NoKline
    /\ ncycles = MaxCyclesEvents
    /\ suppressed = [s \in Symbols |-> NotSuppressed]
    /\ rising = {}
    /\ arg = <<>>
    /\ ret = Pending

NextEvents ==
    \/ SkipBar
    \/ BeginCycle
    \/ GetTickers
    \/ UpdateOpenTrade
    \/ CleanWatchlist
    \/ AdmitCandidate
    \/ UpdateWatch
    \/ EndCycle

SpecEvents == InitEvents /\ [][NextEvents]_vars

-----------------------------------------------------------------------------
(* candidate_from_ticker on its own: one call on one ticker row *)

\* symbols: with the quote suffix, without it, with the quote in front only, empty
TickerSymbols == { SymA, <<"A", "U", "S", "D">>, <<"U", "S", "D", "T", "A">>, <<>> }

\* rows around the three thresholds: 27 over low 20 is a pump of exactly 35%,
\* 44 under high 50 a proximity of exactly 0.88; 63 over low 40 is a pump the floats
\* give as 57.49999999999999; fields float() rejects; zero and negative prices
TickerArgs ==
    [symbol : TickerSymbols,
     lastPrice : {Malformed, Num(0), Num(-27), Num(26), Num(27), Num(44), Num(63)},
     highPrice24h : {Malformed, Num(0), Num(30), Num(31), Num(50), Num(51)},
     lowPrice24h : {Malformed, Num(0), Num(-20), Num(20), Num(40)},
     turnover24h : {Malformed, Num(4999999), Num(5000000)},
     fundingRate : {Malformed, Num(Frac(-1, 100))},
     nextFundingTime : {Num(0)}]

InitCandidate ==
    /\ pc = "call"
    /\ arg \in TickerArgs
    /\ ret = Pending
    /\ clock = StartTime
    /\ now_ts = StartTime
    /\ state = default_state
    /\ trades = <<>>
    /\ tick_map = <<>>
    /\ candidates = <<>>
    /\ keys = <<>>
    /\ pos = 1
    /\ last_candle = NoKline
    /\ disk = [state |-> default_state, trades |-> <<>>]
    /\ listed = {SymA}
    /\ ncycles = 0
    /\ suppressed = [s \in Symbols |-> NotSuppressed]
    /\ rising = {}
    /\ hist = NoHistory

\* lines 142-178
CallCandidateFromTicker ==
    /\ pc = "call"
    /\ ret' = candidate_from_ticker(arg)
    /\ pc' = "return"
    /\ UNCHANGED <<arg, clock, now_ts, state, trades, tick_map, candidates, keys, pos,
                   last_candle, disk, listed, ncycles, suppressed, rising, hist>>

NextCandidate == CallCandidateFromTicker

SpecCandidate == InitCandidate /\ [][NextCandidate]_vars

-----------------------------------------------------------------------------
(* funding_guard on its own: one call *)

\* a short of 20 USDT with tp 14, entered at 200 (qty 0.1) or at 20 (qty 1); marks
\* at tp, below it and 1, 2, 3, 5 and 6 above it: at qty 0.1 the remaining profit is
\* 0.1, 0.2, 0.30000000000000004, 0.5, 0.6; funding rates -0.01, -0.015, -0.5, 0 and
\* 0.01; the guard on and off, with ratio 1 and 1/2
GuardArgs ==
    [enabled : BOOLEAN,
     ratio : {Frac(1, 1), Frac(1, 2)},
     tr : { [tp |-> FromInt(14), qty |-> FromRat(notional_usdt, entry),
             notional_usdt |-> notional_usdt] : entry \in {20, 200} },
     ticker : { [funding_rate |-> r] :
                r \in {Frac(-1, 100), Frac(-15, 1000), Frac(-1, 2), Zero, Frac(1, 100)} },
     mark : {10, 14, 15, 16, 17, 19, 20}]

InitGuard ==
    /\ pc = "call"
    /\ arg \in GuardArgs
    /\ ret = Pending
    /\ clock = StartTime
    /\ now_ts = StartTime
    /\ state = default_state
    /\ trades = <<>>
    /\ tick_map = <<>>
    /\ candidates = <<>>
    /\ keys = <<>>
    /\ pos = 1
    /\ last_candle = NoKline
    /\ disk = [state |-> default_state, trades |-> <<>>]
    /\ listed = {SymA}
    /\ ncycles = 0
    /\ suppressed = [s \in Symbols |-> NotSuppressed]
    /\ rising = {}
    /\ hist = NoHistory

\* lines 232-244
CallFundingGuard ==
    /\ pc = "call"
    /\ ret' = funding_guard_cfg(arg.enabled, arg.ratio, arg.tr, arg.ticker, arg.mark)
    /\ pc' = "return"
    /\ UNCHANGED <<arg, clock, now_ts, state, trades, tick_map, candidates, keys, pos,
                   last_candle, disk, listed, ncycles, suppressed, rising, hist>>

NextGuard == CallFundingGuard

SpecGuard == InitGuard /\ [][NextGuard]_vars

-----------------------------------------------------------------------------
(* Properties *)

High(candle) == safe_float(candle[3], 0)
Low(candle) == safe_float(candle[4], 0)
Close(candle) == safe_float(candle[5], 0)

\* the ticker update_open_trades uses for a trade, given the candle (line 263)
TickerOf(tr, candle) ==
    IF tr.symbol \in DOMAIN tick_map THEN tick_map[tr.symbol]
    ELSE [funding_rate |-> Zero, last |-> Close(candle)]

\* a step of update_open_trades that got a kline answer for trade pos
EvaluatingStep == pc = "trades" /\ pos <= Len(trades)

CloseReasons == {"TP", "SL", "FUNDING_GUARD"}

\* C1: a CLOSED trade is never changed by a later step (its status does not go back
\* to OPEN and its close fields keep their values); an OPEN trade has no close
\* fields, and the step that closes it sets close_ts to the cycle time together
\* with a close reason and a close price.
C1_ClosedIsImmutable ==
    /\ [](\A n \in 1..Len(trades) :
            trades[n].status = "OPEN" =>
                /\ trades[n].close_ts = None
                /\ trades[n].close_reason = NoReason
                /\ trades[n].close_price = NoFloat)
    /\ [][\A n \in 1..Len(trades) :
            /\ Len(trades') >= n
            /\ trades[n].status = "CLOSED" => trades'[n] = trades[n]
            /\ (trades[n].status = "OPEN" /\ trades'[n].status # "OPEN") =>
                    /\ trades'[n].status = "CLOSED"
                    /\ trades'[n].close_ts = now_ts
                    /\ trades'[n].close_reason \in CloseReasons
                    /\ trades'[n].close_price # NoFloat]_vars

\* a trade closed in an earlier cycle has been through update_open_trades again
C1_Witness ==
    /\ pc \in {"admit", "stall", "save"}
    /\ \E n \in 1..Len(trades) :
        trades[n].status = "CLOSED" /\ trades[n].close_ts < now_ts

\* C2: an OPEN trade evaluated with a candle while the funding guard does not fire
\* closes as SL at sl when h >= sl (whether or not l <= tp), as TP at tp when only
\* l <= tp, and is left as it was when neither holds.
C2_CandleOutcome ==
    [][(EvaluatingStep /\ last_candle' # NoKline) =>
        LET tr == trades[pos]
            ticker == TickerOf(tr, last_candle')
            hit_tp == FLeq(FromInt(Low(last_candle')), tr.tp)
            hit_sl == High(last_candle') >= tr.sl
        IN  ~funding_guard(tr, ticker, ticker.last) =>
              /\ hit_sl => trades'[pos] =
                    [tr EXCEPT !.status = "CLOSED", !.close_ts = now_ts,
                               !.close_reason = "SL", !.close_price = <<FromInt(tr.sl)>>]
              /\ (hit_tp /\ ~hit_sl) => trades'[pos] =
                    [tr EXCEPT !.status = "CLOSED", !.close_ts = now_ts,
                               !.close_reason = "TP", !.close_price = <<tr.tp>>]
              /\ (~hit_tp /\ ~hit_sl) => trades'[pos] = tr]_vars

\* the only trade has just closed as SL on a candle that reaches both tp and sl
C2_Witness ==
    /\ pc = "trades"
    /\ Len(trades) = 1
    /\ last_candle # NoKline
    /\ trades[1].close_ts = now_ts
    /\ trades[1].close_reason = "SL"
    /\ trades[1].close_price = <<FromInt(trades[1].sl)>>
    /\ FLeq(FromInt(Low(last_candle)), trades[1].tp)
    /\ High(last_candle) >= trades[1].sl

\* C3: when the funding guard fires for an OPEN trade that got a candle, the trade
\* closes in that step with reason FUNDING_GUARD at the live last price, whatever
\* the candle's range.
C3_GuardFirst ==
    [][(EvaluatingStep /\ last_candle' # NoKline) =>
        LET tr == trades[pos]
            ticker == TickerOf(tr, last_candle')
        IN  funding_guard(tr, ticker, ticker.last) =>
              /\ tr.symbol \in DOMAIN tick_map
              /\ trades'[pos] =
                    [tr EXCEPT !.status = "CLOSED", !.close_ts = now_ts,
                               !.close_reason = "FUNDING_GUARD",
                               !.close_price = <<FromInt(tick_map[tr.symbol].last)>>]]_vars

\* the only trade has just closed on the funding guard although its candle hit tp or sl
C3_Witness ==
    /\ pc = "trades"
    /\ Len(trades) = 1
    /\ last_candle # NoKline
    /\ trades[1].close_ts = now_ts
    /\ trades[1].close_reason = "FUNDING_GUARD"
    /\ trades[1].close_price = <<FromInt(tick_map[trades[1].symbol].last)>>
    /\ (FLeq(FromInt(Low(last_candle)), trades[1].tp) \/ High(last_candle) >= trades[1].sl)

\* C4: a step of update_open_trades that gets no candle for its trade changes no
\* trade and nothing of the state, and the loop goes on with the next OPEN trade
\* of the list, if there is one.
C4_NoCandleNoChange ==
    [][(EvaluatingStep /\ last_candle' = NoKline) =>
        /\ trades' = trades
        /\ state' = state
        /\ pc' = "trades"
        /\ \A m \in (pos + 1)..Len(trades) :
              (trades[m].status = "OPEN"
                 /\ \A q \in (pos + 1)..(m - 1) : trades[q].status # "OPEN")
              => pos' = m
        /\ (\A m \in (pos + 1)..Len(trades) : trades[m].status # "OPEN")
              => pos' > Len(trades)]_vars

\* an OPEN trade got no candle and stayed OPEN, and a later OPEN trade is up next
C4_Witness ==
    /\ pc = "trades"
    /\ last_candle = NoKline
    /\ pos <= Len(trades)
    /\ trades[pos].status = "OPEN"
    /\ \E m \in 1..(pos - 1) :
          /\ trades[m].status = "OPEN"
          /\ \A q \in (m + 1)..(pos - 1) : trades[q].status # "OPEN"

\* a step of the stall loop for the watched symbol keys[pos]
WatchStep == pc = "stall" /\ pos <= Len(keys)

\* the prospective entry price of a symbol: live last price, else the candle's close
EntryPrice(sym, candle) ==
    IF sym \in DOMAIN tick_map THEN tick_map[sym].last ELSE Close(candle)

\* entry > local_high * (1 - tp_from_high_pct), in the floats of the program
AboveTpFromHigh(entry, local_high) ==
    FLess(FMul(FromInt(local_high), TpFactor), FromInt(entry))

\* the entry's stall count reaches the threshold with this candle, and it is not blocked
Stalled(w, candle) ==
    /\ ~w.blocked
    /\ High(candle) <= w.local_high
    /\ w.stall + 1 >= stall_candles

\* C5: when an entry that is not blocked reaches the stall threshold with an entry
\* price above local_high * (1 - tp_from_high_pct), that step appends exactly one
\* trade, OPEN, for the symbol, with that entry and local_high, sets the symbol's
\* cooldown to the cycle time and removes the watch entry; no symbol gets two
\* trades opened in one cycle.
C5_TriggerOpensOneTrade ==
    /\ [](\A n, m \in 1..Len(trades) :
            (trades[n].symbol = trades[m].symbol /\ trades[n].open_ts = trades[m].open_ts)
                => n = m)
    /\ [][(WatchStep /\ last_candle' # NoKline) =>
            LET sym == keys[pos]
                w == WatchGet(state.watch, sym)
                entry == EntryPrice(sym, last_candle')
            IN  (Stalled(w, last_candle') /\ AboveTpFromHigh(entry, w.local_high)) =>
                  /\ Len(trades') = Len(trades) + 1
                  /\ SubSeq(trades', 1, Len(trades)) = trades
                  /\ trades'[Len(trades')].symbol = sym
                  /\ trades'[Len(trades')].status = "OPEN"
                  /\ trades'[Len(trades')].entry = entry
                  /\ trades'[Len(trades')].local_high = w.local_high
                  /\ trades'[Len(trades')].open_ts = now_ts
                  /\ sym \in DOMAIN state'.cooldowns
                  /\ state'.cooldowns[sym] = now_ts
                  /\ ~InWatch(state'.watch, sym)]_vars

\* a trade was opened in this cycle at the live last price; its watch entry is gone
C5_Witness ==
    /\ pc \in {"stall", "save"}
    /\ Len(trades) > 0
    /\ LET tr == trades[Len(trades)]
       IN  /\ tr.status = "OPEN"
           /\ tr.open_ts = now_ts
           /\ tr.symbol \in DOMAIN tick_map
           /\ tr.entry = tick_map[tr.symbol].last
           /\ AboveTpFromHigh(tr.entry, tr.local_high)
           /\ state.cooldowns[tr.symbol] = now_ts
           /\ ~InWatch(state.watch, tr.symbol)

\* C6: when an entry that is not blocked reaches the stall threshold with an entry
\* price at or below local_high * (1 - tp_from_high_pct), that step sets blocked,
\* records a SKIP_BELOW_TP event, opens no trade and keeps the entry watched; a
\* later candle with high > local_high sets local_high to that high, stall to 0
\* and blocked to false.
C6_BlockThenReset ==
    [][(WatchStep /\ last_candle' # NoKline) =>
        LET sym == keys[pos]
            w == WatchGet(state.watch, sym)
            entry == EntryPrice(sym, last_candle')
            high == High(last_candle')
        IN  /\ (Stalled(w, last_candle') /\ ~AboveTpFromHigh(entry, w.local_high)) =>
                  /\ trades' = trades
                  /\ state'.cooldowns = state.cooldowns
                  /\ InWatch(state'.watch, sym)
                  /\ WatchGet(state'.watch, sym) =
                        [w EXCEPT !.blocked = TRUE, !.stall = w.stall + 1,
                                  !.updated_ts = now_ts]
                  /\ Len(state'.last_events) > 0
                  /\ LET e == state'.last_events[Len(state'.last_events)]
                     IN  /\ e.type = "SKIP_BELOW_TP"
                         /\ e.symbol = sym
                         /\ e.ts = now_ts
                         /\ e.entry = entry
                         /\ e.local_high = w.local_high
                  /\ SubSeq(state'.last_events, 1, Len(state'.last_events) - 1)
                        = state.last_events
            /\ (w.blocked /\ high > w.local_high) =>
                  /\ trades' = trades
                  /\ InWatch(state'.watch, sym)
                  /\ WatchGet(state'.watch, sym) =
                        [w EXCEPT !.local_high = high, !.stall = 0, !.blocked = FALSE,
                                  !.updated_ts = now_ts]]_vars

\* an entry that was blocked earlier in its life is Rising again on a higher high
C6_Witness ==
    /\ pc \in {"stall", "save"}
    /\ last_candle # NoKline
    /\ \E n \in 1..Len(state.watch) :
        LET w == state.watch[n]
        IN  /\ ~w.blocked
            /\ w.stall = 0
            /\ w.updated_ts = now_ts
            /\ w.local_high = High(last_candle)
            /\ \E k \in 1..Len(state.last_events) :
                LET e == state.last_events[k]
                IN  /\ e.type = "SKIP_BELOW_TP"
                    /\ e.symbol = w.symbol
                    /\ e.ts >= w.created_ts
                    /\ e.ts < now_ts
                    /\ e.local_high < w.local_high

\* C7 as claimed: a trade is opened for a symbol only if no block of that symbol is
\* still waiting for a candle with a high above the blocked entry's local_high.
C7_Claim ==
    [][Len(trades') > Len(trades) =>
        suppressed[trades'[Len(trades')].symbol].high = None]_vars

\* C7 as amended: a trade is opened only from a watch entry that is not blocked; if
\* a block of the symbol is still waiting for a higher high, the entry that opens
\* the trade was created after that block (the blocked entry expired by TTL and the
\* symbol was admitted again).
C7_BlockedEntryOpensNoTrade ==
    [][Len(trades') > Len(trades) =>
        LET sym == trades'[Len(trades')].symbol
        IN  /\ pc = "stall"
            /\ InWatch(state.watch, sym)
            /\ ~WatchGet(state.watch, sym).blocked
            /\ suppressed[sym].high # None =>
                    WatchGet(state.watch, sym).created_ts > suppressed[sym].ts]_vars

\* an entry blocked in an earlier cycle was looked at again with a live price above
\* its take-profit level and no new high, and stayed blocked without a trade
C7_Witness ==
    /\ pc \in {"stall", "save"}
    /\ \E n \in 1..Len(state.watch) :
        LET w == state.watch[n]
        IN  /\ w.blocked
            /\ w.updated_ts = now_ts
            /\ w.stall > stall_candles
            /\ suppressed[w.symbol].high = w.local_high
            /\ suppressed[w.symbol].ts < now_ts
            /\ w.symbol \in DOMAIN tick_map
            /\ AboveTpFromHigh(tick_map[w.symbol].last, w.local_high)
            /\ ~HasOpenTrade(trades, w.symbol)

\* C8: a symbol enters the watch map only in the admission loop, as a candidate of
\* the cycle that is not watched, is not within the cooldown window and has no OPEN
\* trade, and only when a candle was obtained; the new entry has stall 0, blocked
\* false, local_high the candle's high and both timestamps the cycle time. The
\* admission loop changes no entry that exists.
C8_Admission ==
    [][/\ \A sym \in Symbols :
            (~InWatch(state.watch, sym) /\ InWatch(state'.watch, sym)) =>
                /\ pc = "admit"
                /\ \E n \in 1..Len(candidates) : candidates[n].symbol = sym
                /\ \/ sym \notin DOMAIN state.cooldowns
                   \/ now_ts - state.cooldowns[sym] >= symbol_cooldown_minutes * 60
                /\ \A n \in 1..Len(trades) :
                        trades[n].symbol = sym => trades[n].status # "OPEN"
                /\ last_candle' # NoKline
                /\ state'.watch = Append(state.watch,
                        [symbol |-> sym, local_high |-> High(last_candle'), stall |-> 0,
                         blocked |-> FALSE, updated_ts |-> now_ts, created_ts |-> now_ts])
       /\ pc = "admit" =>
            /\ Len(state'.watch) >= Len(state.watch)
            /\ SubSeq(state'.watch, 1, Len(state.watch)) = state.watch]_vars

\* a candidate whose earlier trade is closed and whose cooldown has run out has just
\* been admitted, with the candle's high and not the 24h high as local_high
C8_Witness ==
    /\ pc \in {"admit", "stall"}
    /\ last_candle # NoKline
    /\ Len(state.watch) > 0
    /\ LET w == state.watch[Len(state.watch)]
       IN  /\ w.created_ts = now_ts
           /\ w.stall = 0
           /\ w.local_high = High(last_candle)
           /\ \E n \in 1..Len(candidates) :
                 candidates[n].symbol = w.symbol /\ candidates[n].high24 # w.local_high
           /\ \E n \in 1..Len(trades) :
                 trades[n].symbol = w.symbol /\ trades[n].status = "CLOSED"
           /\ w.symbol \in DOMAIN state.cooldowns
           /\ now_ts - state.cooldowns[w.symbol] >= symbol_cooldown_minutes * 60

\* C9 as claimed: at the end of every cycle a watched symbol whose candle highs have
\* been strictly increasing since its admission has stall 0 and is not blocked.
C9_Claim ==
    pc \in {"save", "loop"} =>
        \A n \in 1..Len(state.watch) :
            state.watch[n].symbol \in rising =>
                state.watch[n].stall = 0 /\ ~state.watch[n].blocked

\* C10: from the TTL cleaning to the end of the cycle no watch entry has an age of
\* watch_ttl_seconds or more, so a trade is opened and a SKIP_BELOW_TP is recorded
\* only from an entry younger than that.
C10_ExpiredRemovedFirst ==
    /\ [](pc \in {"admit", "stall", "save"} =>
            \A n \in 1..Len(state.watch) :
                now_ts - state.watch[n].created_ts < watch_ttl_seconds)
    /\ [][(Len(trades') > Len(trades) \/ state'.last_events # state.last_events) =>
            /\ WatchStep
            /\ InWatch(state.watch, keys[pos])
            /\ now_ts - WatchGet(state.watch, keys[pos]).created_ts
                    < watch_ttl_seconds]_vars

\* a blocked entry the previous cycle saved is past its TTL and is gone from the
\* watch map before this cycle's admission and stall loops
C10_Witness ==
    /\ pc \in {"admit", "stall", "save"}
    /\ \E n \in 1..Len(disk.state.watch) :
        LET w == disk.state.watch[n]
        IN  /\ now_ts - w.created_ts >= watch_ttl_seconds
            /\ w.blocked
            /\ w.stall >= stall_candles
            /\ \A m \in 1..Len(state.watch) :
                  state.watch[m].symbol = w.symbol => state.watch[m].created_ts = now_ts

-----------------------------------------------------------------------------
(* C11 *)

\* the number a raw field stands for: what float() gives, 0.0 when it fails
Parsed(x) == IF x.isnum THEN x.val ELSE 0

HasQuoteSuffix(sym) ==
    /\ Len(sym) >= Len(quote)
    /\ SubSeq(sym, Len(sym) - Len(quote) + 1, Len(sym)) = quote

PricesPositive(t) ==
    Parsed(t.lastPrice) > 0 /\ Parsed(t.highPrice24h) > 0 /\ Parsed(t.lowPrice24h) > 0

\* the three thresholds, on exact fractions; low24 and high24 are positive here
TurnoverOk(t) == Parsed(t.turnover24h) >= min_turnover_usdt
PumpOk(t) ==
    (Parsed(t.lastPrice) - Parsed(t.lowPrice24h)) * 100
        >= min_pump_from_low24_pct * Parsed(t.lowPrice24h)
ProximityOk(t) ==
    Parsed(t.lastPrice) * near_high_ratio.den >= near_high_ratio.num * Parsed(t.highPrice24h)

PassesAll(t) ==
    HasQuoteSuffix(t.symbol) /\ PricesPositive(t) /\ TurnoverOk(t) /\ PumpOk(t) /\ ProximityOk(t)

\* C11: candidate_from_ticker returns None for a row without the quote suffix, with a
\* last, 24h high or 24h low that is not strictly positive (a malformed number counts
\* as 0.0), or failing one of turnover >= min, pump% >= min, proximity >= min; for a
\* row passing all of them it returns one candidate for the row's symbol that carries
\* pump% = (last - low24) / low24 * 100 and proximity = last / high24, as the floats
\* of the program give them; the call changes neither its argument nor the state,
\* the trades or the files.
C11_CandidateFilter ==
    /\ [](ret # Pending =>
            IF PassesAll(arg)
            THEN /\ Len(ret) = 1
                 /\ ret[1].symbol = arg.symbol
                 /\ ret[1].last = Parsed(arg.lastPrice)
                 /\ ret[1].pump_from_low24_pct =
                        FMul(FromRat(Parsed(arg.lastPrice) - Parsed(arg.lowPrice24h),
                                     Parsed(arg.lowPrice24h)), FromInt(100))
                 /\ ret[1].near_high =
                        FromRat(Parsed(arg.lastPrice), Parsed(arg.highPrice24h))
            ELSE ret = <<>>)
    /\ [][arg' = arg /\ state' = state /\ trades' = trades /\ disk' = disk]_vars

\* a row exactly on the pump threshold and on the turnover threshold was accepted, and
\* the call has returned
C11_Witness ==
    /\ pc = "return"
    /\ ret # Pending /\ ret # <<>>
    /\ ret[1].pump_from_low24_pct = FromInt(min_pump_from_low24_pct)
    /\ ret[1].turnover = min_turnover_usdt

\* a row was accepted whose pump the two roundings of line 157 leave below the
\* fraction: 57.49999999999999 for 23/40 * 100
C11_WitnessRounding ==
    /\ pc = "return"
    /\ ret # Pending /\ ret # <<>>
    /\ ret[1].last = 63 /\ ret[1].low24 = 40
    /\ FLess(ret[1].pump_from_low24_pct, FromRat(2300, 40))

-----------------------------------------------------------------------------
(* C12 *)

FSame(a, b) == FCmp(a, b) = 0

\* remaining = max(0, (mark - tp) * qty), in the floats of the program
Remaining(a) ==
    LET r == FMul(FSub(FromInt(a.mark), a.tr.tp), a.tr.qty)
    IN  IF FSign(r) > 0 THEN r ELSE FZero

\* notional * rate
ExpectedFunding(a) == FMul(FromInt(a.tr.notional_usdt), FromFrac(a.ticker.funding_rate))

\* C12: funding_guard returns False when the guard is disabled, when the funding rate
\* is >= 0 or when remaining = max(0, (mark - tp) * qty) is 0; otherwise it returns
\* True exactly when abs(notional * rate) >= remaining * funding_guard_ratio.  With
\* rate -0.01, notional 20 and ratio 1 it fires for remaining 0.1 and not for 0.5.
C12_FundingGuard ==
    pc = "return" =>
        /\ ret = IF ~arg.enabled \/ arg.ticker.funding_rate.num >= 0
                    \/ FSame(Remaining(arg), FZero)
                 THEN FALSE
                 ELSE FLeq(FMul(Remaining(arg), FromFrac(arg.ratio)),
                           FAbs(ExpectedFunding(arg)))
        /\ ( /\ arg.enabled
             /\ arg.ticker.funding_rate = Frac(-1, 100)
             /\ arg.tr.notional_usdt = 20
             /\ arg.ratio = Frac(1, 1) )
            => /\ FSame(Remaining(arg), FromRat(1, 10)) => ret = TRUE
               /\ FSame(Remaining(arg), FromRat(5, 10)) => ret = FALSE

\* the guard has fired with the expected funding cost exactly equal to
\* remaining * ratio (0.2 against 0.2)
C12_Witness ==
    /\ pc = "return"
    /\ arg.enabled /\ arg.ratio = Frac(1, 1)
    /\ arg.ticker.funding_rate = Frac(-1, 100)
    /\ FSame(Remaining(arg), FromRat(2, 10))
    /\ ret = TRUE

\* the guard has not fired where the two sides are equal as fractions and the
\* rounding of (mark - tp) * qty puts remaining above: 0.3 against
\* 0.30000000000000004
C12_WitnessRounding ==
    /\ pc = "return"
    /\ arg.enabled /\ arg.ratio = Frac(1, 1)
    /\ arg.ticker.funding_rate = Frac(-15, 1000)
    /\ arg.mark = 17 /\ arg.tr.qty = FromRat(20, 200)
    /\ FLess(FromRat(3, 10), Remaining(arg))
    /\ ret = FALSE

-----------------------------------------------------------------------------
(* C13 *)

\* the bar-close value, in ms, of the 15-minute bar that second t lies in
BarOf(t) == (t - (t % BarSeconds)) * 1000

\* the entry the memory held for w's symbol when the cycle began, if it is the same
\* entry (an entry is known by its symbol and creation time)
AtCycleStart(w) ==
    { v \in { hist.start.state.watch[n] : n \in 1..Len(hist.start.state.watch) } :
        v.symbol = w.symbol /\ v.created_ts = w.created_ts }

\* C13: with the bar gate on, a cycle is begun only for a bar-close value no cycle was
\* begun for before (the value is that of the clock as read for it, which the step
\* leaves in clock); an iteration that can only compute a value already begun, in
\* this second or the next, sleeps; an iteration that sleeps leaves state, trades
\* and files as they are; state and trades change only inside a cycle, where the
\* trades are passed over once, in order, and a watch entry's stall grows by at most
\* one: no trade is evaluated twice and no stall is counted twice for the same bar.
C13_AtMostOncePerBar ==
    /\ [][(pc = "loop" /\ pc' # "loop") =>
            (BarOf(clock') \notin hist.bars /\ clock' \in {clock, clock + 1})]_vars
    /\ [][(pc = "loop" /\ BarOf(clock) \in hist.bars /\ BarOf(clock + 1) \in hist.bars)
            => pc' = "loop"]_vars
    /\ [][(pc = "loop" /\ pc' = "loop") =>
            (state' = state /\ trades' = trades /\ disk' = disk)]_vars
    /\ [][(pc = "trades" /\ pc' = "trades") => pos' > pos]_vars
    /\ [](pc # "loop" =>
            \A n \in 1..Len(state.watch) :
                LET w == state.watch[n]
                IN  /\ \A v \in AtCycleStart(w) : w.stall <= v.stall + 1
                    /\ AtCycleStart(w) = {} => w.stall <= 1)

\* an iteration in a bar already begun has slept and skipped (it took its time 5 s
\* after the bar's cycle) while a watch entry waits and a trade is open
C13_Witness ==
    /\ pc = "loop"
    /\ now_ts % BarSeconds = wake_seconds
    /\ BarOf(now_ts) \in hist.bars
    /\ state.last_bar_close_ms = BarOf(now_ts)
    /\ Len(state.watch) > 0
    /\ \E n \in 1..Len(trades) : trades[n].status = "OPEN"

-----------------------------------------------------------------------------
(* C14, C15, C16 *)

\* a step of the loop itself, not a failure, an interrupt or a crash
LoopStep == hist'.nfaults = hist.nfaults

\* C14 as claimed: a failure inside a cycle is caught, the process goes on, and after
\* the backoff the work that failed is tried again: the iteration that follows a
\* caught failure while the bar of the failed cycle is still the current bar begins
\* a cycle for that bar.
C14_Claim ==
    [][( /\ pc = "loop"
         /\ hist.failed_bar # None
         /\ BarOf(clock) = hist.failed_bar
         /\ LoopStep ) => pc' = "tickers"]_vars

\* C15 as claimed: when the loop has ended on a KeyboardInterrupt, the cycle that was
\* in flight has been completed: both files were written after it and hold what is
\* in memory.
C15_Claim ==
    pc = "exit" =>
        /\ hist.wrote.state /\ hist.wrote.trades
        /\ disk.state = state /\ disk.trades = trades

\* watch, cooldowns and events of two state records are the same
SameRecord(a, b) ==
    a.watch = b.watch /\ a.cooldowns = b.cooldowns /\ a.last_events = b.last_events

\* C16 as claimed: a crash and restart loses at most what the cycle of the crash
\* changed in memory: each reloaded file is either a version written during that
\* cycle or holds every watch, cooldown, event and trade change the memory held when
\* that cycle began, those of earlier cycles that ended in a caught error included.
C16_Claim ==
    [][hist'.restarts # hist.restarts =>
        /\ \/ hist.wrote.state
           \/ disk'.state # disk.state
           \/ SameRecord(state', hist.start.state)
        /\ \/ hist.wrote.trades
           \/ trades' = hist.start.trades]_vars

-----------------------------------------------------------------------------
(* C17 *)

\* C17: every trade opened and every entry blocked is recorded as the newest event;
\* every recording appends one SKIP_BELOW_TP or TRIGGER event of the cycle in
\* progress at the end of last_events and leaves the earlier events in their order;
\* the list never holds more than 500 entries, and when the new event would make it
\* 501 it is the oldest entry alone that is dropped: the list is always the most
\* recent 500 events.
C17_EventsCapped ==
    /\ [](Len(state.last_events) <= 500)
    /\ [][state'.last_events # state.last_events =>
            LET old == state.last_events
                new == state'.last_events
                e == new[Len(new)]
            IN  /\ e.type \in {"SKIP_BELOW_TP", "TRIGGER"}
                /\ e.ts = now_ts
                /\ new = IF Len(old) < 500 THEN Append(old, e)
                         ELSE Append(Tail(old), e)]_vars
    /\ [][Len(trades') > Len(trades) =>
            LET e == state'.last_events[Len(state'.last_events)]
            IN  /\ e.type = "TRIGGER" /\ e.ts = now_ts
                /\ e.symbol = trades'[Len(trades')].symbol]_vars
    /\ [][\A n \in 1..Len(state'.watch) :
            ( /\ state'.watch[n].blocked
              /\ n <= Len(state.watch)
              /\ state.watch[n].symbol = state'.watch[n].symbol
              /\ ~state.watch[n].blocked ) =>
                LET e == state'.last_events[Len(state'.last_events)]
                IN  /\ e.type = "SKIP_BELOW_TP" /\ e.ts = now_ts
                    /\ e.symbol = state'.watch[n].symbol]_vars

\* both recordings have overflowed a full list in one cycle of this run: a
\* SKIP_BELOW_TP of SymA was appended to the 500 events of the earlier run and the
\* first of them dropped (line 446), then a TRIGGER of SymB was appended and the
\* second dropped (line 466)
C17_Witness ==
    /\ Len(state.last_events) = 500
    /\ state.last_events[1] = EarlierEvent(3)
    /\ state.last_events[498] = EarlierEvent(500)
    /\ state.last_events[499].type = "SKIP_BELOW_TP"
    /\ state.last_events[499].symbol = SymA
    /\ state.last_events[499].ts = now_ts
    /\ state.last_events[500].type = "TRIGGER"
    /\ state.last_events[500].symbol = SymB
    /\ state.last_events[500].ts = now_ts
    /\ now_ts >= EventsStartTime
    /\ \E n \in 1..Len(state.watch) :
          state.watch[n].symbol = SymA /\ state.watch[n].blocked

\* a TRIGGER has filled the list exactly: the 499 events of the earlier run are all
\* kept
C17_WitnessFilled ==
    /\ Len(state.last_events) = 500
    /\ state.last_events[1] = EarlierEvent(1)
    /\ state.last_events[500].type = "TRIGGER"
    /\ state.last_events[500].ts >= EventsStartTime

\* a SKIP_BELOW_TP alone has overflowed the full list
C17_WitnessSkip ==
    /\ Len(state.last_events) = 500
    /\ state.last_events[1] = EarlierEvent(2)
    /\ state.last_events[500].type = "SKIP_BELOW_TP"
    /\ state.last_events[500].ts >= EventsStartTime

-----------------------------------------------------------------------------
(* C18 *)

\* the entries of watch that are the entry w: same symbol, same creation time
SameEntry(watch, w) ==
    { watch[n] : n \in { m \in 1..Len(watch) :
        watch[m].symbol = w.symbol /\ watch[m].created_ts = w.created_ts } }

\* C18: while a watch entry exists its local_high never decreases, and only the stall
\* loop's pass over the entry changes it, once per cycle: given a closed candle with
\* a high strictly above local_high it sets local_high to that high, stall to 0 and
\* blocked to false; given any other closed candle it leaves local_high as it is and
\* adds exactly 1 to stall (the entry may then be blocked, or removed by a trigger);
\* without a candle the entry is left as it is.
C18_LocalHighMonotone ==
    [][\A n \in 1..Len(state.watch) :
        LET w == state.watch[n]
            handled == WatchStep /\ keys[pos] = w.symbol
        IN  \A w1 \in SameEntry(state'.watch, w) :
                /\ w1.local_high >= w.local_high
                /\ ~handled => w1 = w
                /\ (handled /\ last_candle' = NoKline) => w1 = w
                /\ (handled /\ last_candle' # NoKline) =>
                      IF High(last_candle') > w.local_high
                      THEN /\ w1.local_high = High(last_candle')
                           /\ w1.stall = 0
                           /\ ~w1.blocked
                      ELSE /\ w1.local_high = w.local_high
                           /\ w1.stall = w.stall + 1
                           /\ w.blocked => w1.blocked]_vars

\* a blocked entry that had stalled has just been given a candle with a higher high:
\* local_high has moved up to it, stall is 0 and the block is gone
C18_Witness ==
    /\ pc \in {"stall", "save"}
    /\ last_candle # NoKline
    /\ \E n \in 1..Len(state.watch) :
        LET w == state.watch[n]
        IN  /\ w.local_high = High(last_candle)
            /\ w.stall = 0 /\ ~w.blocked
            /\ w.updated_ts = now_ts /\ w.created_ts < now_ts
            /\ suppressed[w.symbol] = NotSuppressed
            /\ \E k \in 1..Len(state.last_events) :
                  /\ state.last_events[k].symbol = w.symbol
                  /\ state.last_events[k].type = "SKIP_BELOW_TP"
                  /\ state.last_events[k].local_high < w.local_high
                  /\ state.last_events[k].ts >= w.created_ts

-----------------------------------------------------------------------------
(* C19 *)

OpenTradesOf(sym) == { n \in 1..Len(trades) : trades[n].symbol = sym /\ trades[n].status = "OPEN" }

\* C19: in a run from the empty state, at the end of every cycle no symbol has a watch
\* entry and an OPEN trade, no symbol has two OPEN trades, and any two trades of one
\* symbol were opened at least symbol_cooldown_minutes apart.
C19_OnePositionPerSymbol ==
    pc \in {"save", "loop"} =>
        /\ \A n \in 1..Len(state.watch) : OpenTradesOf(state.watch[n].symbol) = {}
        /\ \A sym \in Symbols : Cardinality(OpenTradesOf(sym)) <= 1
        /\ \A i, j \in 1..Len(trades) :
              (i < j /\ trades[i].symbol = trades[j].symbol) =>
                  trades[j].open_ts - trades[i].open_ts >= symbol_cooldown_minutes * 60

\* at the end of a cycle a symbol has its second trade, opened a cooldown window or
\* more after the first, which is closed
C19_Witness ==
    /\ pc = "save"
    /\ \E i, j \in 1..Len(trades) :
          /\ i < j
          /\ trades[i].symbol = trades[j].symbol
          /\ trades[i].status = "CLOSED"
          /\ trades[j].status = "OPEN"
          /\ trades[j].open_ts = now_ts
          /\ trades[j].open_ts - trades[i].open_ts >= symbol_cooldown_minutes * 60

-----------------------------------------------------------------------------
(* C20 *)

ClosedWith(tr, reason) == tr.status = "CLOSED" /\ tr.close_reason = reason

\* tp < entry < sl, and the pnl of a TP close is positive, that of an SL close negative
TradeLevels(tr) ==
    /\ FLess(tr.tp, FromInt(tr.entry))
    /\ tr.entry < tr.sl
    /\ FSign(tr.qty) > 0
    /\ ClosedWith(tr, "TP") =>
          /\ trade_pnl(tr) = << FMul(FSub(FromInt(tr.entry), tr.tp), tr.qty) >>
          /\ FSign(trade_pnl(tr)[1]) > 0
    /\ ClosedWith(tr, "SL") =>
          /\ trade_pnl(tr) = << FMul(FromInt(tr.entry - tr.sl), tr.qty) >>
          /\ FSign(trade_pnl(tr)[1]) < 0

\* C20: every trade has tp < entry < sl; a trade closed with reason TP has
\* pnl = (entry - close_price) * qty > 0 and a trade closed with reason SL has pnl < 0.
\* It is stated of every trade a step creates or changes: a run starts without trades.
C20_TradeLevels ==
    [][\A n \in 1..Len(trades') :
          (n > Len(trades) \/ trades'[n] # trades[n]) => TradeLevels(trades'[n])]_vars

\* a trade was closed at its take-profit in this cycle, with a gain
C20_Witness ==
    \E n \in 1..Len(trades) :
        /\ ClosedWith(trades[n], "TP")
        /\ trades[n].close_ts = now_ts
        /\ trades[n].close_price = <<trades[n].tp>>
        /\ FSign(trade_pnl(trades[n])[1]) > 0

\* a trade was closed at its stop-loss in this cycle, with a loss
C20_WitnessSl ==
    \E n \in 1..Len(trades) :
        /\ ClosedWith(trades[n], "SL")
        /\ trades[n].close_ts = now_ts
        /\ trades[n].close_price = <<FromInt(trades[n].sl)>>
        /\ FSign(trade_pnl(trades[n])[1]) < 0

====
